---- MODULE Spec2Model ----
(***************************************************************************)
(* omnizm component CLI: `init` and `add`.                                 *)
(*                                                                         *)
(* The repository holds two builds of the CLI:                             *)
(*   "cli"  src/cli/cli.ts        interactive `add` only; installer        *)
(*                                failures are caught at the call site     *)
(*   "pkg"  src/unnamed/part_000  `add [names]` through installComponents  *)
(* One run of the program is one behaviour: Init fixes the build, the      *)
(* command line and the file system, the actions are the steps of the run. *)
(*                                                                         *)
(* Strings are sequences of tokens: the component name button is           *)
(* <<"button">>, the file button.tsx is <<"button", ".tsx">>.              *)
(* A JavaScript Set is an insertion-ordered sequence without duplicates.   *)
(***************************************************************************)
EXTENDS Integers, Sequences, FiniteSets, TLC

VARIABLES
  build,              \* which source file runs
  command,            \* process.argv[2]
  args,               \* process.argv.slice(3), read by the pkg build only
  uiReadable,         \* readdir(<cwd>/ui) succeeds
  ui,                 \* file names in <cwd>/ui
  yarnLock,           \* <cwd>/yarn.lock is a readable file
  pnpmLock,           \* <cwd>/pnpm-lock.yaml is a readable file
  npmLock,            \* <cwd>/package-lock.json is a readable file
  config,             \* content of <cwd>/components.yml, None when readFile fails on it
  configAtStart,      \* history: config when the run started
  dirAtStart,         \* history: dirMade when the run started
  dirMade,            \* <cwd>/components/ui exists
  target,             \* content of each file of <cwd>/components/ui
  pc,                 \* position of the run
  direct,             \* add took the direct installation branch
  stack,              \* init: selectedStack
  available,          \* add: availableComponents of the interactive branch
  selection,          \* the component names handed to the pipeline
  idx,                \* index of the running for-of loop
  allDependencies,    \* Set<string>
  radixDependencies,  \* Set<string>
  installedComponents,
  failedComponents,
  out,                \* what the run printed, in order
  exitCode,           \* process exit code (0 until process.exit(1))
  installerCalls,     \* history: every execSync of the run
  aggReads,           \* history: names read by the aggregation pass
  attempts,           \* history: names attempted by the copy pass
  writes,             \* history: every writeFile that succeeded
  reads,              \* history: every readComponentFromUI call and its result
  faults              \* history: the kinds of I/O and subprocess failure so far

fsVars   == <<uiReadable, ui, yarnLock, pnpmLock, npmLock>>
inVars   == <<build, command, args>>
histVars == <<configAtStart, dirAtStart, installerCalls, aggReads, attempts,
              writes, reads, faults>>
vars == <<build, command, args, uiReadable, ui, yarnLock, pnpmLock, npmLock,
          config, configAtStart, dirMade, target, pc, direct, stack, available, selection,
          idx, allDependencies, radixDependencies, installedComponents,
          failedComponents, out, exitCode, installerCalls, aggReads,
          attempts, writes, dirAtStart, reads, faults>>

----------------------------------------------------------------------------
(* Bounds and input sets *)

MaxArgs == 2

Builds == {"cli", "pkg"}
Commands == {"init", "add", "help"}

button == <<"button">>
Button == <<"Button">>
card   == <<"card">>
ghost  == <<"ghost">>
Names  == {button, Button, card, ghost}

TSX == ".tsx"
FileOf(name) == name \o <<TSX>>
notes == <<"notes", ".md">>
cardBackup == <<"card", ".tsx", ".bak", ".tsx">>   \* card.tsx.bak.tsx

UiDirs == { {},
            {FileOf(card), notes},
            {FileOf(button), FileOf(card), notes},
            {FileOf(Button), FileOf(card)},
            {FileOf(button), FileOf(Button), FileOf(card)},
            {FileOf(card), cardBackup} }

None == <<>>
Old  == <<"old">>
SourceOf(file) == <<"src">> \o file
TargetFiles == {FileOf(n) : n \in Names}

Range(s) == {s[i] : i \in DOMAIN s}
SeqsUpTo(S, n) == UNION {[1..k -> S] : k \in 0..n}
DistinctSeqs(S) ==
  {s \in SeqsUpTo(S, Cardinality(S)) :
     Len(s) > 0 /\ \A i, j \in DOMAIN s : i # j => s[i] # s[j]}

----------------------------------------------------------------------------
(* Strings and Sets *)

lowerToken(t) == IF t = "Button" THEN "button" ELSE t
toLowerCase(s) == [i \in DOMAIN s |-> lowerToken(s[i])]

endsWith(s, t) == Len(s) > 0 /\ s[Len(s)] = t

\* String.prototype.replace(t, ''): removes the first occurrence only
RECURSIVE replaceFirst(_, _)
replaceFirst(s, t) ==
  IF s = <<>> THEN <<>>
  ELSE IF Head(s) = t THEN Tail(s)
  ELSE <<Head(s)>> \o replaceFirst(Tail(s), t)

\* bug: an array push in place of Set.prototype.add
SetAddNoDedupe(set, x) == Append(set, x)

\* Set.prototype.add
SetAdd(set, x) == IF x \in Range(set) THEN set ELSE Append(set, x)

RECURSIVE SetAddAll(_, _)
SetAddAll(set, xs) ==
  IF xs = <<>> THEN set ELSE SetAddAll(SetAdd(set, Head(xs)), Tail(xs))

RECURSIVE filterSeq(_, _)
filterSeq(s, keep) ==
  IF s = <<>> THEN <<>>
  ELSE IF Head(s) \in keep THEN <<Head(s)>> \o filterSeq(Tail(s), keep)
  ELSE filterSeq(Tail(s), keep)

----------------------------------------------------------------------------
(* Pure functions of the CLI *)

SUPPORTED_STACKS == {"nextjs", "svelte", "remix", "astro"}
Cancelled == "cancel-symbol"

getDefaultConfig(s) == <<"stack", s>>

\* listAvailableComponents: the names, or Unreadable when readdir throws
listAvailableComponents(readable, dir) ==
  IF readable
  THEN [ok |-> TRUE,
        names |-> {replaceFirst(f, TSX) : f \in {g \in dir : endsWith(g, TSX)}}]
  ELSE [ok |-> FALSE, names |-> {}]

BaselineDependencies == <<"class-variance-authority", "tailwind-merge", "clsx">>
RadixSlot == "@radix-ui/react-slot"

ReadFailed == [ok |-> FALSE, files |-> <<>>, dependencies |-> <<>>]

\* bug: the special case is matched without toLowerCase
readComponentFromUIExactCase(componentName, readable, dir, fault) ==
  LET componentPath == FileOf(componentName)
  IN IF ~(readable /\ componentPath \in dir) \/ fault
     THEN ReadFailed
     ELSE [ok |-> TRUE,
           files |-> <<[name |-> componentPath,
                        content |-> SourceOf(componentPath)]>>,
           dependencies |->
             IF componentName = button
             THEN Append(BaselineDependencies, RadixSlot)
             ELSE BaselineDependencies]

\* readComponentFromUI; fault: the readFile of an existing file fails
readComponentFromUI(componentName, readable, dir, fault) ==
  LET componentPath == FileOf(componentName)
  IN IF ~(readable /\ componentPath \in dir) \/ fault
     THEN ReadFailed
     ELSE [ok |-> TRUE,
           files |-> <<[name |-> componentPath,
                        content |-> SourceOf(componentPath)]>>,
           dependencies |->
             IF toLowerCase(componentName) = button
             THEN Append(BaselineDependencies, RadixSlot)
             ELSE BaselineDependencies]

\* bug: the pnpm lockfile is probed first
detectPackageManagerPnpmFirst(yarn, pnpm) ==
  IF pnpm THEN "pnpm"
  ELSE IF yarn THEN "yarn"
  ELSE "npm"

detectPackageManager(yarn, pnpm) ==
  IF yarn THEN "yarn"
  ELSE IF pnpm THEN "pnpm"
  ELSE "npm"

installCommand(packageManager, dependencies) ==
  CASE packageManager = "npm"  -> <<"npm", "install", "--save">> \o dependencies
    [] packageManager = "yarn" -> <<"yarn", "add">> \o dependencies
    [] packageManager = "pnpm" -> <<"pnpm", "add">> \o dependencies


\* installComponents: components.filter(comp => !availableComponents.includes(comp))
invalidComponents(components, availableNames) ==
  filterSeq(components, Range(components) \ availableNames)

\* bug: process.exit() without a failure code
validationOutcomeExitsZero(invalid) ==
  IF Len(invalid) > 0 THEN [exit |-> TRUE, code |-> 0]
  ELSE [exit |-> FALSE, code |-> 0]

\* installComponents: what follows the filter (process.exit(1) when some name is invalid)
validationOutcome(invalid) ==
  IF Len(invalid) > 0 THEN [exit |-> TRUE, code |-> 1]
  ELSE [exit |-> FALSE, code |-> 0]

\* bug: the Radix package is recorded without the name test
collectDependenciesRadixAlways(all, radix, componentName, component) ==
  [all   |-> SetAddAll(all, component.dependencies),
   radix |-> SetAdd(radix, RadixSlot)]

\* bug: the Set is rebuilt from each component instead of extended
collectDependenciesOverwrites(all, radix, componentName, component) ==
  [all   |-> SetAddAll(<<>>, component.dependencies),
   radix |-> IF toLowerCase(componentName) = button
             THEN SetAdd(radix, RadixSlot) ELSE radix]

\* body of the dependency-collecting loop, after a successful read
collectDependencies(all, radix, componentName, component) ==
  [all   |-> SetAddAll(all, component.dependencies),
   radix |-> IF toLowerCase(componentName) = button
             THEN SetAdd(radix, RadixSlot) ELSE radix]

\* bug: the loop stops one iteration early
forOfNextOffByOne(i, n, body, after) == IF i < n - 1 THEN body ELSE after

\* for (const x of xs) { body }: where control goes after iteration i of n
forOfNext(i, n, body, after) == IF i < n THEN body ELSE after

\* bug: the try/catch wraps the loop, so a failure ends it
copyLoopBreaks(i, n, ok) == IF ok THEN i + 1 ELSE n + 1

\* copy loop: index of the next iteration after attempt i (the try/catch is
\* inside the loop body, so a failure does not leave the loop)
copyLoopNext(i, n, ok) == i + 1

\* bug: the two pushes are exchanged
copyResultSwapped(installed, failed, componentName, ok) ==
  IF ok THEN [installed |-> installed, failed |-> Append(failed, componentName)]
  ELSE [installed |-> Append(installed, componentName), failed |-> failed]

\* bug: the catch block does not record the name
copyResultDropsFailure(installed, failed, componentName, ok) ==
  IF ok THEN [installed |-> Append(installed, componentName), failed |-> failed]
  ELSE [installed |-> installed, failed |-> failed]

\* copy loop: the two result lists after one attempt
copyResult(installed, failed, componentName, ok) ==
  IF ok THEN [installed |-> Append(installed, componentName), failed |-> failed]
  ELSE [installed |-> installed, failed |-> Append(failed, componentName)]

\* is a failure thrown by installDependencies fatal for the caller?
\* part_000 awaits it bare inside installComponents' try; cli.ts wraps each
\* call in its own try/catch that prints a warning
installFailureFatal(b) == b = "pkg"

\* bug: the existence test is ignored
initCreateOverwrites(configExists, writeOk) ==
  IF writeOk THEN "write" ELSE "error"

\* init: what the try block does, given exists(CONFIG_FILE) and the outcome
\* of writeFile
initCreate(configExists, writeOk) ==
  IF configExists THEN "noop"
  ELSE IF writeOk THEN "write"
  ELSE "error"

\* the outcomes of the readFile calls of one readComponentFromUI: a file
\* that is there may still fail to be read
ReadFaults(componentName, readable, dir) ==
  IF readable /\ FileOf(componentName) \in dir THEN BOOLEAN ELSE {FALSE}

\* bug: the collecting loop swallows a failed read as the copy loop does
readFailureNeverFatal(stage) == FALSE

\* is a failed readComponentFromUI fatal in this loop?  The collecting loop
\* has no try/catch of its own, the copy loop has one around its body
readFailureFatal(stage) == stage = "aggregate"

\* bug: an existing file is kept (flag 'wx' semantics without the error)
writeFileKeepsExisting(files, filepath, content) ==
  IF files[filepath] = None THEN [files EXCEPT ![filepath] = content] ELSE files

\* writeFile(filepath, content): creates or replaces the file
writeFile(files, filepath, content) == [files EXCEPT ![filepath] = content]

Say(kind, data) == <<kind, data>>
Kinds(o) == {o[i][1] : i \in DOMAIN o}

\* bug: the failed names are not printed
summaryLinesOmitFailed(installed, failed) ==
  IF Len(installed) > 0 THEN <<Say("installed", installed)>> ELSE <<>>

\* the two name lists of the summary
summaryLines(installed, failed) ==
  (IF Len(installed) > 0 THEN <<Say("installed", installed)>> ELSE <<>>)
  \o (IF Len(failed) > 0 THEN <<Say("failed", failed)>> ELSE <<>>)

\* bug: installComponents creates the target directory before it validates
installOrderMkdirFirst(b) ==
  IF b = "pkg" THEN <<"mkdir", "validate", "aggregate">>
  ELSE <<"mkdir", "aggregate">>

\* the steps from the selection to the collecting loop, in program order:
\* installComponents validates and then creates the target directory;
\* cli.ts's add creates the directory right after the prompt
installOrder(b) ==
  IF b = "pkg" THEN <<"validate", "mkdir", "aggregate">>
  ELSE <<"mkdir", "aggregate">>

stepAfter(b, step) ==
  LET order == installOrder(b)
      k == CHOOSE i \in DOMAIN order : order[i] = step
  IN order[k + 1]

----------------------------------------------------------------------------
(* Initial states: a build, a command line and a project directory *)

FsChoices == {[readable |-> TRUE, dir |-> d] : d \in UiDirs}
               \cup {[readable |-> FALSE, dir |-> {}]}

NoTargets == [f \in TargetFiles |-> None]
OldTargets == [f \in TargetFiles |-> IF f = FileOf(button) THEN Old ELSE None]

Init ==
  /\ build \in Builds
  /\ command \in Commands
  /\ args \in (IF build = "pkg" /\ command = "add"
               THEN SeqsUpTo(Names, MaxArgs) ELSE {<<>>})
  /\ \E f \in FsChoices : uiReadable = f.readable /\ ui = f.dir
  /\ yarnLock \in BOOLEAN
  /\ pnpmLock \in BOOLEAN
  /\ npmLock \in BOOLEAN
  /\ config \in (IF command = "init" THEN {None, Old} ELSE {Old})
  /\ configAtStart = config
  /\ dirMade \in BOOLEAN
  /\ dirAtStart = dirMade
  /\ target = (IF dirMade THEN OldTargets ELSE NoTargets)
  /\ pc = "start"
  /\ direct = FALSE
  /\ stack = ""
  /\ available = {}
  /\ selection = <<>>
  /\ idx = 1
  /\ allDependencies = <<>>
  /\ radixDependencies = <<>>
  /\ installedComponents = <<>>
  /\ failedComponents = <<>>
  /\ out = <<>>
  /\ exitCode = 0
  /\ installerCalls = <<>>
  /\ aggReads = <<>>
  /\ attempts = <<>>
  /\ writes = <<>>
  /\ reads = <<>>
  /\ faults = {}

----------------------------------------------------------------------------
(* Steps *)

\* process.exit(code), or the end of the main module (code 0)
Exit(code) == pc' = "done" /\ exitCode' = code

runVars == <<direct, stack, available, selection, idx, allDependencies,
             radixDependencies, installedComponents, failedComponents>>
projVars == <<config, dirMade, target>>

\* switch (command) case 'init'
MainInit ==
  /\ pc = "start" /\ command = "init"
  /\ out' = Append(out, Say("intro", <<>>))
  /\ pc' = "init_prompt"
  /\ UNCHANGED <<inVars, fsVars, projVars, runVars, exitCode, histVars>>

\* switch (command) case 'add', up to the choice of the branch of add
MainAdd ==
  /\ pc = "start" /\ command = "add"
  /\ out' = Append(out, Say("intro", <<>>))
  /\ IF build = "pkg" /\ Len(args) > 0
     THEN /\ direct' = TRUE
          /\ selection' = args
          /\ pc' = installOrder(build)[1]
     ELSE /\ pc' = "add_load"
          /\ UNCHANGED <<direct, selection>>
  /\ UNCHANGED <<inVars, fsVars, projVars, stack, available, idx,
                 allDependencies, radixDependencies, installedComponents,
                 failedComponents, exitCode, histVars>>

\* switch (command) default
MainUnknown ==
  /\ pc = "start" /\ command \notin {"init", "add"}
  /\ out' = Append(out, Say("cancel", <<>>))
  /\ Exit(1)
  /\ UNCHANGED <<inVars, fsVars, projVars, runVars, histVars>>

\* init: the select prompt
InitPrompt ==
  /\ pc = "init_prompt"
  /\ \E selectedStack \in SUPPORTED_STACKS \cup {Cancelled} :
       IF selectedStack = Cancelled
       THEN /\ out' = Append(out, Say("cancel", <<>>))
            /\ Exit(1)
            /\ UNCHANGED stack
       ELSE /\ stack' = selectedStack
            /\ pc' = "init_create"
            /\ UNCHANGED <<out, exitCode>>
  /\ UNCHANGED <<inVars, fsVars, projVars, direct, available, selection, idx,
                 allDependencies, radixDependencies, installedComponents,
                 failedComponents, histVars>>

\* init: the try block and the outro
InitCreate ==
  /\ pc = "init_create"
  /\ \E writeOk \in BOOLEAN :
       LET what == initCreate(config # None, writeOk)
       IN CASE what = "noop" ->
                 /\ Exit(0)
                 /\ UNCHANGED <<config, out, writes, faults>>
            [] what = "write" ->
                 /\ config' = getDefaultConfig(stack)
                 /\ writes' = Append(writes, <<"components.yml">>)
                 /\ out' = Append(out, Say("outro", <<>>))
                 /\ Exit(0)
                 /\ UNCHANGED faults
            [] what = "error" ->
                 /\ out' = Append(out, Say("cancel", <<>>))
                 /\ Exit(1)
                 /\ faults' = faults \cup {"write"}
                 /\ UNCHANGED <<config, writes>>
  /\ UNCHANGED <<inVars, fsVars, dirMade, target, runVars, configAtStart,
                 dirAtStart, installerCalls, aggReads, attempts, reads>>


\* add, interactive branch: listAvailableComponents and the empty check
AddLoad ==
  /\ pc = "add_load"
  /\ LET listed == listAvailableComponents(uiReadable, ui)
     IN IF ~listed.ok \/ listed.names = {}
        THEN /\ out' = Append(out, Say("cancel", <<>>))
             /\ Exit(1)
             /\ UNCHANGED available
        ELSE /\ available' = listed.names
             /\ pc' = "add_select"
             /\ UNCHANGED <<out, exitCode>>
  /\ UNCHANGED <<inVars, fsVars, projVars, direct, stack, selection, idx,
                 allDependencies, radixDependencies, installedComponents,
                 failedComponents, histVars>>

\* add, interactive branch: the multiselect prompt (required: true); the
\* prompt returns the chosen values in the order the user toggled them
AddSelect ==
  /\ pc = "add_select"
  /\ \/ /\ out' = Append(out, Say("cancel", <<>>))
        /\ Exit(1)
        /\ UNCHANGED selection
     \/ /\ \E selectedComponents \in DistinctSeqs(available) :
             selection' = selectedComponents
        /\ pc' = installOrder(build)[1]
        /\ UNCHANGED <<out, exitCode>>
  /\ UNCHANGED <<inVars, fsVars, projVars, direct, stack, available, idx,
                 allDependencies, radixDependencies, installedComponents,
                 failedComponents, histVars>>

\* installComponents: validation of the names against the ui directory
Validate ==
  /\ pc = "validate"
  /\ LET listed == listAvailableComponents(uiReadable, ui)
         invalid == invalidComponents(selection, listed.names)
         outcome == validationOutcome(invalid)
     IN IF ~listed.ok
        THEN /\ out' = Append(out, Say("cancel", <<>>))
             /\ Exit(1)
        ELSE IF outcome.exit
        THEN /\ out' = Append(out, Say("invalid", invalid))
             /\ Exit(outcome.code)
        ELSE /\ pc' = stepAfter(build, "validate")
             /\ UNCHANGED <<out, exitCode>>
  /\ UNCHANGED <<inVars, fsVars, projVars, runVars, histVars>>

\* mkdir(componentDir, {recursive: true}) and the two empty Sets
Mkdir ==
  /\ pc = "mkdir"
  /\ \E mkdirOk \in BOOLEAN :
       IF mkdirOk \/ dirMade
       THEN /\ dirMade' = TRUE
            /\ pc' = stepAfter(build, "mkdir")
            /\ idx' = 1
            /\ allDependencies' = <<>>
            /\ radixDependencies' = <<>>
            /\ UNCHANGED <<out, exitCode, faults>>
       ELSE /\ out' = Append(out, Say("cancel", <<>>))
            /\ Exit(1)
            /\ faults' = faults \cup {"mkdir"}
            /\ UNCHANGED <<dirMade, idx, allDependencies, radixDependencies>>
  /\ UNCHANGED <<inVars, fsVars, config, target, direct, stack, available,
                 selection, installedComponents, failedComponents,
                 configAtStart, dirAtStart, installerCalls, aggReads, attempts,
                 writes, reads>>

\* one iteration of the dependency-collecting loop
Aggregate ==
  /\ pc = "aggregate"
  /\ \E fault \in ReadFaults(selection[idx], uiReadable, ui) :
       LET componentName == selection[idx]
           component == readComponentFromUI(componentName, uiReadable, ui, fault)
           sets == collectDependencies(allDependencies, radixDependencies,
                                       componentName, component)
       IN /\ aggReads' = Append(aggReads, componentName)
          /\ reads' = Append(reads, [stage |-> "aggregate", name |-> componentName,
                                     fault |-> fault, result |-> component])
          /\ faults' = IF fault THEN faults \cup {"read"} ELSE faults
          /\ IF component.ok \/ ~readFailureFatal("aggregate")
             THEN /\ allDependencies' = IF component.ok THEN sets.all
                                        ELSE allDependencies
                  /\ radixDependencies' = IF component.ok THEN sets.radix
                                          ELSE radixDependencies
                  /\ pc' = forOfNext(idx, Len(selection), "aggregate", "install_shared")
                  /\ idx' = IF pc' = "aggregate" THEN idx + 1 ELSE 1
                  /\ UNCHANGED <<out, exitCode>>
             ELSE /\ out' = Append(out, Say("cancel", <<>>))
                  /\ Exit(1)
                  /\ UNCHANGED <<idx, allDependencies, radixDependencies>>
  /\ UNCHANGED <<inVars, fsVars, projVars, direct, stack, available, selection,
                 installedComponents, failedComponents, configAtStart,
                 dirAtStart, installerCalls, attempts, writes>>

\* installDependencies(dependencies) called from `from`; the subprocess
\* exits zero (execOk) or not
InstallStep(from, dependencies, after) ==
  /\ pc = from
  /\ IF Len(dependencies) = 0
     THEN /\ pc' = after
          /\ UNCHANGED <<out, exitCode, installerCalls, faults>>
     ELSE \E execOk \in BOOLEAN :
            LET packageManager == detectPackageManager(yarnLock, pnpmLock)
            IN /\ installerCalls' = Append(installerCalls,
                    [packageManager |-> packageManager,
                     command |-> installCommand(packageManager, dependencies),
                     ok |-> execOk])
               /\ faults' = IF execOk THEN faults ELSE faults \cup {"exec"}
               /\ IF execOk
                  THEN /\ pc' = after
                       /\ UNCHANGED <<out, exitCode>>
                  ELSE IF installFailureFatal(build)
                  THEN /\ out' = Append(out, Say("cancel", <<>>))
                       /\ Exit(1)
                  ELSE /\ out' = Append(out, Say("warning", <<>>))
                       /\ pc' = after
                       /\ UNCHANGED exitCode
  /\ UNCHANGED <<inVars, fsVars, projVars, direct, stack, available, selection,
                 allDependencies, radixDependencies, configAtStart, dirAtStart,
                 aggReads, attempts, writes, reads>>

\* if (allDependencies.size > 0) await installDependencies([...allDependencies])
InstallShared ==
  /\ InstallStep("install_shared", allDependencies, "install_radix")
  /\ UNCHANGED <<idx, installedComponents, failedComponents>>

\* if (radixDependencies.size > 0) await installDependencies([...radixDependencies]),
\* then the two empty result lists of the copy stage
InstallRadix ==
  /\ InstallStep("install_radix", radixDependencies, "copy")
  /\ idx' = 1
  /\ installedComponents' = <<>>
  /\ failedComponents' = <<>>

\* one iteration of the copy loop
Copy ==
  /\ pc = "copy"
  /\ \E fault \in ReadFaults(selection[idx], uiReadable, ui), writeOk \in BOOLEAN :
       LET componentName == selection[idx]
           component == readComponentFromUI(componentName, uiReadable, ui, fault)
           ok == component.ok /\ writeOk
           lists == copyResult(installedComponents, failedComponents,
                               componentName, ok)
           next == copyLoopNext(idx, Len(selection), ok)
       IN /\ \/ component.ok
             \/ writeOk   \* no write is attempted after a failed read
          /\ attempts' = Append(attempts, componentName)
          /\ reads' = Append(reads, [stage |-> "copy", name |-> componentName,
                                     fault |-> fault, result |-> component])
          /\ faults' = faults \cup (IF fault THEN {"read"} ELSE {})
                               \cup (IF writeOk THEN {} ELSE {"write"})
          /\ IF ok
             THEN /\ target' = writeFile(target, component.files[1].name,
                                         component.files[1].content)
                  /\ writes' = Append(writes, component.files[1].name)
                  /\ out' = out
             ELSE /\ out' = Append(out, Say("warning", <<componentName>>))
                  /\ UNCHANGED <<target, writes>>
          /\ installedComponents' = lists.installed
          /\ failedComponents' = lists.failed
          /\ idx' = next
          /\ pc' = IF next <= Len(selection) THEN "copy" ELSE "summary"
  /\ UNCHANGED <<inVars, fsVars, config, dirMade, direct, stack, available,
                 selection, allDependencies, radixDependencies, exitCode,
                 configAtStart, dirAtStart, installerCalls, aggReads>>

\* the summary, the outro and the end of the main module
Summary ==
  /\ pc = "summary"
  /\ out' = out \o summaryLines(installedComponents, failedComponents)
                   \o <<Say("outro", <<>>)>>
  /\ Exit(0)
  /\ UNCHANGED <<inVars, fsVars, projVars, runVars, histVars>>

Next ==
  \/ MainInit
  \/ MainAdd
  \/ MainUnknown
  \/ InitPrompt
  \/ InitCreate
  \/ AddLoad
  \/ AddSelect
  \/ Validate
  \/ Mkdir
  \/ Aggregate
  \/ InstallShared
  \/ InstallRadix
  \/ Copy
  \/ Summary

Spec == Init /\ [][Next]_vars


----------------------------------------------------------------------------
(* The dependency-collecting loop as a function of the selection, every    *)
(* read succeeding                                                         *)

RECURSIVE aggregateAll(_, _, _)
aggregateAll(components, all, radix) ==
  IF components = <<>> THEN [all |-> all, radix |-> radix]
  ELSE LET componentName == Head(components)
           component == readComponentFromUI(componentName, uiReadable, ui, FALSE)
           sets == collectDependencies(all, radix, componentName, component)
       IN aggregateAll(Tail(components), sets.all, sets.radix)

----------------------------------------------------------------------------
(* Properties *)

\* s is an interleaving of a and b: the positions of s split into two
\* classes, one spelling a and the other spelling b, both in order
RECURSIVE IsMerge(_, _, _)
IsMerge(s, a, b) ==
  IF s = <<>> THEN a = <<>> /\ b = <<>>
  ELSE \/ a # <<>> /\ Head(a) = Head(s) /\ IsMerge(Tail(s), Tail(a), b)
       \/ b # <<>> /\ Head(b) = Head(s) /\ IsMerge(Tail(s), a, Tail(b))

\* the copy stage of an add run has ended
CopyStageEnded ==
  \/ pc = "summary"
  \/ pc = "done" /\ command = "add" /\ "outro" \in Kinds(out)

PermutationsOf(s) ==
  {[i \in DOMAIN s |-> s[f[i]]] :
     f \in {g \in [DOMAIN s -> DOMAIN s] : \A i, j \in DOMAIN s : i # j => g[i] # g[j]}}

RECURSIVE removeDuplicates(_)
removeDuplicates(s) ==
  IF s = <<>> THEN <<>>
  ELSE <<Head(s)>> \o removeDuplicates(filterSeq(Tail(s), Range(s) \ {Head(s)}))

SomeInstallFailed == \E i \in DOMAIN installerCalls : ~installerCalls[i].ok

\* C1: during and after the copy stage the installed and the failed list
\* partition the positions of the selection handled so far: the handled
\* prefix is an order-preserving interleaving of the two lists, so at the end
\* of the stage every selected position is in exactly one list.
C1_Partition ==
  /\ pc = "copy" =>
       IsMerge(SubSeq(selection, 1, idx - 1), installedComponents, failedComponents)
  /\ CopyStageEnded =>
       /\ IsMerge(selection, installedComponents, failedComponents)
       /\ Len(installedComponents) + Len(failedComponents) = Len(selection)

C1_Witness ==
  /\ pc = "summary"
  /\ Len(selection) >= 2
  /\ Len(installedComponents) > 0
  /\ Len(failedComponents) > 0

\* C2: a failed copy attempt never stops the copy stage: the attempts made so
\* far are the prefix of the selection, and when the stage ends they are the
\* whole selection, each name once and in selection order.
C2_EveryComponentAttempted ==
  /\ pc = "copy" => attempts = SubSeq(selection, 1, idx - 1)
  /\ CopyStageEnded => attempts = selection

C2_Witness ==
  /\ pc = "summary"
  /\ Len(selection) >= 2
  /\ failedComponents # <<>>
  /\ failedComponents[1] = selection[1]
  /\ attempts = selection

\* C3: a run in which the package-manager subprocess exited non-zero still
\* attempts every selected component, prints the summary outro and ends with
\* exit code 0.
C3_InstallFailureIsOnlyAWarning ==
  (pc = "done" /\ SomeInstallFailed) =>
     /\ attempts = selection
     /\ "outro" \in Kinds(out)
     /\ exitCode = 0

\* C4: a direct add run given a name that is not an available component ends
\* with a non-zero exit code and never invokes the package manager.
C4_InvalidNameNeverInstalls ==
  (direct /\ \E i \in DOMAIN args :
               args[i] \notin listAvailableComponents(uiReadable, ui).names) =>
     /\ installerCalls = <<>>
     /\ pc = "done" => exitCode # 0

C4_Witness ==
  /\ pc = "done"
  /\ direct
  /\ Len(args) = 2
  /\ args[1] \in listAvailableComponents(uiReadable, ui).names
  /\ args[2] \notin listAvailableComponents(uiReadable, ui).names
  /\ uiReadable

\* C5: every package-manager invocation uses yarn when only yarn.lock exists,
\* pnpm when only pnpm-lock.yaml exists, npm when neither exists and yarn when
\* both exist, whether or not an npm lockfile exists.
C5_DetectPackageManager ==
  \A i \in DOMAIN installerCalls :
    /\ (yarnLock /\ ~pnpmLock) => installerCalls[i].packageManager = "yarn"
    /\ (~yarnLock /\ pnpmLock) => installerCalls[i].packageManager = "pnpm"
    /\ (~yarnLock /\ ~pnpmLock) => installerCalls[i].packageManager = "npm"
    /\ (yarnLock /\ pnpmLock) => installerCalls[i].packageManager = "yarn"

C5_Witness ==
  /\ installerCalls # <<>>
  /\ yarnLock /\ pnpmLock /\ npmLock
  /\ installerCalls[1].packageManager = "yarn"


\* C6 (as stated): an init run started while components.yml exists writes
\* nothing, leaves the file as it was and ends with exit code 0.
C6_InitNoOpAlwaysExitsZero ==
  (command = "init" /\ configAtStart # None) =>
     /\ writes = <<>>
     /\ config = configAtStart
     /\ pc = "done" => exitCode = 0

\* C6 (amended): an init run started while components.yml exists writes
\* nothing and leaves the file as it was; it ends with exit code 0 when the
\* user chose a stack and with exit code 1 when the user cancelled the prompt.
C6_InitNoOp ==
  (command = "init" /\ configAtStart # None) =>
     /\ writes = <<>>
     /\ config = configAtStart
     /\ pc = "done" => exitCode = (IF stack \in SUPPORTED_STACKS THEN 0 ELSE 1)

C6_Witness ==
  /\ command = "init"
  /\ configAtStart # None
  /\ pc = "done"
  /\ stack \in SUPPORTED_STACKS
  /\ exitCode = 0

\* C7: when the aggregation pass has read the whole selection, aggregating any
\* permutation of the selection gives the same general dependency set and the
\* same special-cased dependency set.
C7_AggregationOrderIndependent ==
  pc = "install_shared" =>
    \A p \in PermutationsOf(selection) :
      LET r == aggregateAll(p, <<>>, <<>>)
      IN /\ Range(r.all) = Range(allDependencies)
         /\ Range(r.radix) = Range(radixDependencies)

C7_Witness ==
  /\ pc = "install_shared"
  /\ Len(selection) = 2
  /\ toLowerCase(selection[1]) = button
  /\ toLowerCase(selection[2]) # button

\* C8: when the aggregation pass has read the whole selection, the two Sets
\* are exactly those of the selection with its duplicates removed, and a step
\* of the aggregation pass leaves the file system as it was.
C8_AggregationIdempotent ==
  /\ [](pc = "install_shared" =>
          aggregateAll(removeDuplicates(selection), <<>>, <<>>)
            = [all |-> allDependencies, radix |-> radixDependencies])
  /\ [][pc = "aggregate" => UNCHANGED <<fsVars, config, dirMade, target, writes>>]_vars

C8_Witness ==
  /\ pc = "install_shared"
  /\ Len(selection) = 2
  /\ selection[1] = selection[2]
  /\ toLowerCase(selection[1]) = button

Stages == <<{"start"},
            {"add_load", "add_select", "validate"},
            {"mkdir", "aggregate"},
            {"install_shared", "install_radix"},
            {"copy"},
            {"summary"},
            {"done"}>>
StageOf(p) == CHOOSE k \in DOMAIN Stages : p \in Stages[k]

\* C9: an add run never moves to an earlier stage of Idle, Selecting,
\* Aggregating, Installing, Copying, Summarizing, Terminal; the package
\* manager is invoked only after every selected component was read by the
\* aggregation pass, and a component file is written only in the copy stage,
\* after which the package manager is not invoked again.
C9_StageOrder ==
  [][command = "add" =>
       /\ StageOf(pc') >= StageOf(pc)
       /\ installerCalls' # installerCalls =>
            (aggReads = selection /\ writes = <<>> /\ writes' = <<>>)
       /\ writes' # writes =>
            (pc = "copy" /\ installerCalls' = installerCalls)]_vars

C9_Witness ==
  /\ command = "add"
  /\ pc = "done"
  /\ Len(selection) = 2
  /\ Len(installerCalls) = 2
  /\ Len(writes) = 2

\* C10: every run that has ended printed an outro or a cancel message.
C10_EveryRunEndsWithOutroOrCancel ==
  pc = "done" => ("outro" \in Kinds(out) \/ "cancel" \in Kinds(out))


\* the installation stage of an add run is over and the run went on
InstallStageEnded == pc = "copy" \/ CopyStageEnded

\* C11: when the installation stage of an add run is over, exactly one
\* package-manager command was run, and it carried every aggregated
\* dependency.
C11_ExactlyOneInstallerCommand ==
  InstallStageEnded =>
    /\ Len(installerCalls) = 1
    /\ Range(allDependencies) \subseteq Range(installerCalls[1].command)


\* C12: every readComponentFromUI call fails when readFile cannot read
\* ui/<name>.tsx, and otherwise returns one file, named <name>.tsx and holding
\* the source content, with the three baseline dependencies, followed by
\* @radix-ui/react-slot exactly when the name is button ignoring case; a call
\* of the aggregation pass changes no file or directory.
C12_ReadComponentContract ==
  /\ [](\A i \in DOMAIN reads :
          LET name == reads[i].name
              result == reads[i].result
              file == name \o <<".tsx">>
              readable == uiReadable /\ file \in ui /\ ~reads[i].fault
          IN /\ ~readable => ~result.ok
             /\ readable =>
                  /\ result.ok
                  /\ result.files = <<[name |-> file, content |-> <<"src">> \o file]>>
                  /\ result.dependencies =
                       <<"class-variance-authority", "tailwind-merge", "clsx">>
                       \o (IF name \in {<<"button">>, <<"Button">>}
                           THEN <<"@radix-ui/react-slot">> ELSE <<>>))
  /\ [][reads' # reads /\ pc = "aggregate" =>
          UNCHANGED <<ui, config, dirMade, target, writes>>]_vars

C12_Witness ==
  \E i, j \in DOMAIN reads :
    /\ reads[i].name = Button /\ reads[i].result.ok
    /\ reads[j].name = card /\ reads[j].result.ok


\* C13: a direct add run whose names all have a source file in ui/, with
\* neither yarn.lock nor pnpm-lock.yaml and with no I/O or subprocess failure,
\* ends with exit code 0 having installed through npm only; the general set is
\* the three baseline dependencies, plus @radix-ui/react-slot exactly when
\* button (in either case) is selected; nothing failed, the installed list is
\* the selection, and the summary prints the selected names and no failed list.
C13_DirectAddExample ==
  (/\ direct /\ pc = "done" /\ faults = {}
   /\ ~yarnLock /\ ~pnpmLock
   /\ uiReadable /\ \A i \in DOMAIN args : FileOf(args[i]) \in ui) =>
     /\ exitCode = 0
     /\ installerCalls # <<>>
     /\ \A i \in DOMAIN installerCalls :
          /\ installerCalls[i].packageManager = "npm"
          /\ SubSeq(installerCalls[i].command, 1, 3) = <<"npm", "install", "--save">>
     /\ Range(allDependencies) =
          {"class-variance-authority", "tailwind-merge", "clsx"}
            \cup (IF \E i \in DOMAIN args : args[i] \in {<<"button">>, <<"Button">>}
                  THEN {"@radix-ui/react-slot"} ELSE {})
     /\ failedComponents = <<>>
     /\ installedComponents = args
     /\ Say("installed", args) \in Range(out)
     /\ "failed" \notin Kinds(out)

C13_Witness ==
  /\ direct /\ pc = "done" /\ faults = {}
  /\ ~yarnLock /\ ~pnpmLock
  /\ args = <<button, card>>
  /\ exitCode = 0


\* the files of components/ui when the run started
TargetAtStart == IF dirAtStart THEN OldTargets ELSE NoTargets

\* C14: during and after the copy stage exactly one file was written per
\* installed component, at components/ui/<name>.tsx and in installation
\* order; each such file holds the source content of ui/<name>.tsx whatever it
\* held before, every other file is as it was when the run started, and a
\* copy attempt whose read failed writes nothing.
C14_InstalledFilesCopied ==
  /\ []((pc = "copy" \/ CopyStageEnded) =>
          /\ writes = [i \in DOMAIN installedComponents |->
                         installedComponents[i] \o <<".tsx">>]
          /\ \A f \in TargetFiles :
               target[f] = IF f \in Range(writes) THEN <<"src">> \o f
                           ELSE TargetAtStart[f])
  /\ [][(pc = "copy" /\ ~reads'[Len(reads')].result.ok) =>
          UNCHANGED <<target, writes>>]_vars

C14_Witness ==
  /\ CopyStageEnded
  /\ dirAtStart
  /\ TargetAtStart[FileOf(button)] = Old
  /\ button \in Range(installedComponents)
  /\ failedComponents # <<>>


\* C15: a failed copy attempt never ends the run: from the copy stage the run
\* only goes on copying or to the summary, and from the summary to a normal
\* end; a finished run with a non-empty failed list printed that list by
\* name, printed the outro and has exit code 0.
C15_CopyFailuresNotFatal ==
  /\ []((pc = "done" /\ failedComponents # <<>>) =>
          /\ Say("failed", failedComponents) \in Range(out)
          /\ "outro" \in Kinds(out)
          /\ "cancel" \notin Kinds(out)
          /\ exitCode = 0)
  /\ [][/\ pc = "copy" => (pc' \in {"copy", "summary"} /\ exitCode' = 0)
        /\ pc = "summary" => (pc' = "done" /\ exitCode' = 0)]_vars

C15_Witness ==
  /\ pc = "done"
  /\ Len(selection) = 2
  /\ failedComponents = selection
  /\ exitCode = 0


AggregationReadFailed ==
  \E i \in DOMAIN reads : reads[i].stage = "aggregate" /\ ~reads[i].result.ok

\* C16: once a read of the aggregation pass has failed the run is over, with
\* a cancel message and exit code 1, no package-manager invocation and no
\* component file written, whatever was read before the failure.
C16_AggregationReadFailureFatal ==
  AggregationReadFailed =>
    /\ pc = "done"
    /\ exitCode = 1
    /\ "cancel" \in Kinds(out)
    /\ installerCalls = <<>>
    /\ attempts = <<>>
    /\ writes = <<>>
    /\ target = TargetAtStart

C16_Witness ==
  /\ Len(reads) = 2
  /\ reads[1].stage = "aggregate" /\ reads[1].result.ok
  /\ reads[2].stage = "aggregate" /\ ~reads[2].result.ok
  /\ pc = "done"


\* C17: every name of the interactive list has its source file ui/<name>.tsx
\* in the listed directory, and every read of a listed or validated name
\* succeeds unless a readFile fails on a file that is there.
C17_ListedNamesHaveSourceFiles ==
  /\ pc = "add_select" => \A n \in available : (n \o <<".tsx">>) \in ui
  /\ \A i \in DOMAIN reads : ~reads[i].fault => reads[i].result.ok


IsButtonName(name) == name \in {<<"button">>, <<"Button">>}

\* C18: the special-cased set is always a subset of the general set; during
\* the aggregation pass it is non-empty exactly when a name read so far is
\* button ignoring case, and after the pass exactly when some selected name
\* is; the first package-manager command of a run carries every member of it.
C18_RadixSubsetOfAll ==
  /\ Range(radixDependencies) \subseteq Range(allDependencies)
  /\ pc = "aggregate" =>
       (radixDependencies # <<>>
          <=> \E i \in 1..(idx - 1) : IsButtonName(selection[i]))
  /\ (pc \in {"install_shared", "install_radix"} \/ InstallStageEnded) =>
       (radixDependencies # <<>>
          <=> \E i \in DOMAIN selection : IsButtonName(selection[i]))
  /\ installerCalls # <<>> =>
       Range(radixDependencies) \subseteq Range(installerCalls[1].command)

C18_Witness ==
  /\ pc = "install_radix"
  /\ selection = <<card, Button>>
  /\ radixDependencies # <<>>
  /\ installerCalls # <<>>

\* C19: a run that printed the list of invalid names is over with exit code 1
\* and left the project as it was: components/ui was not created, no file was
\* written and no component source was read.
C19_ValidationFailureChangesNothing ==
  "invalid" \in Kinds(out) =>
    /\ pc = "done"
    /\ exitCode = 1
    /\ dirMade = dirAtStart
    /\ target = TargetAtStart
    /\ config = configAtStart
    /\ writes = <<>>
    /\ reads = <<>>
    /\ aggReads = <<>>
    /\ installerCalls = <<>>

C19_Witness ==
  /\ "invalid" \in Kinds(out)
  /\ ~dirAtStart
  /\ Len(args) = 2
  /\ FileOf(args[1]) \in ui
  /\ FileOf(args[2]) \notin ui

====
